---- MODULE Spec2Model ----
(***************************************************************************)
(* A model of P2PFileTransfer (src/index.js): the registry of peer         *)
(* sessions (this.peers), the asynchronous sendFile and _handleSignal      *)
(* handlers with their await points, the sender's chunk loop with its      *)
(* back-off timer, the data channel, and the receiver's reassembly.        *)
(*                                                                         *)
(* Two endpoints run the library, "a" and "b"; each is a peer of the       *)
(* other.  A session (peerData) is created together with its               *)
(* RTCPeerConnection, so one identifier names both.  A file's bytes are     *)
(* named by their position: a chunk is the range [lo, hi) of a file, and   *)
(* two sequences of chunks hold the same bytes when their ranges, with     *)
(* adjacent ranges joined and empty ones dropped, are the same.            *)
(***************************************************************************)
EXTENDS Integers, Sequences, FiniteSets, TLC

VARIABLES
    peers,       \* this.peers of each endpoint: peer id -> session id (0: no entry)
    listening,   \* whether the endpoint's socket has the signal listener attached
    pcs,         \* every session ever created (peerData and its RTCPeerConnection)
    calls,       \* every sendFile call: its arguments and its promise
    chans,       \* every data channel created by sendFile
    tasks,       \* async handlers suspended at an await
    signals,     \* signaling messages relayed to each endpoint, in order
    errors,      \* callbacks.onError invocations
    completions, \* callbacks.onComplete invocations, in order
    stateChanges,\* callbacks.onConnectionStateChange invocations
    destroyed,   \* history: whether destroy() has been called on the endpoint
    ignored,     \* history: the signals that started no handler at the endpoint
    env          \* what the environment may still do in this run (see Scenarios)

vars == <<peers, listening, pcs, calls, chans, tasks, signals, errors,
          completions, stateChanges, destroyed, ignored, env>>

(***************************************************************************)
(* Program constants.                                                      *)
(***************************************************************************)
chunkSize == 16384

BufferFactor == 10

BackoffMs == 100

MetadataFrameOverhead == 59

EndFrameLength == 14

(***************************************************************************)
(* Bounds of the model.                                                    *)
(***************************************************************************)
MaxFaults == 1

MaxDestroys == 1

MaxCandidates == 1

\* the frames outside the protocol a remote end sends in one run
MaxFrames == 1

Inst == {"a", "b", "c"}

(***************************************************************************)
(* Files.  A File has a name, a size and a type; its bytes are its         *)
(* positions 0 .. size-1.                                                  *)
(***************************************************************************)
MkFile(n, s, t) == [name |-> n, size |-> s, type |-> t]

SmallFiles == { MkFile("f0", 0, "t0"), MkFile("f1", 1, "t1") }

OneFile == { MkFile("f1", 1, "t1") }

ScenarioFiles == { MkFile("f0", 0, "t0"), MkFile("g1", 1, "t1"),
                   MkFile("g2", 16384, "t2"), MkFile("g3", 16385, "t3"),
                   MkFile("g4", 50000, "t4") }

BigFiles == { MkFile("h1", 200000, "t1") }

Min(x, y) == IF x < y THEN x ELSE y

\* file.slice(lo, hi): the positions lo .. hi-1 clamped to the file
Slice(file, lo, hi) ==
    [src |-> file.name, lo |-> Min(lo, file.size), hi |-> Min(hi, file.size)]

byteLength(chunk) == chunk.hi - chunk.lo

RECURSIVE Digits(_)
Digits(n) == IF n < 10 THEN 1 ELSE 1 + Digits(n \div 10)

(***************************************************************************)
(* Channel messages.  A text message carries JSON; a binary message a      *)
(* chunk.                                                                  *)
(***************************************************************************)
NoChunk == [src |-> "", lo |-> 0, hi |-> 0]

NoJson == [type |-> "", fileName |-> "", fileSize |-> 0, fileType |-> ""]

MetadataJson(file) ==
    [type |-> "metadata", fileName |-> file.name, fileSize |-> file.size,
     fileType |-> file.type]

EndJson == [type |-> "end", fileName |-> "", fileSize |-> 0, fileType |-> ""]

\* a text message that is no JSON: JSON.parse throws a SyntaxError on it
GarbageText ==
    [kind |-> "text", json |-> [NoJson EXCEPT !.type = "<not json>"],
     chunk |-> NoChunk, bytes |-> 1]

Parseable(msg) == msg.json.type # "<not json>"

\* JSON.stringify(obj): a text of the JSON's length
JSONstringify(obj) ==
    [kind |-> "text", json |-> obj, chunk |-> NoChunk,
     bytes |-> IF obj.type = "end" THEN EndFrameLength
               ELSE MetadataFrameOverhead + Len(obj.fileName)
                    + Digits(obj.fileSize) + Len(obj.fileType)]

\* JSON.parse(text)
JSONparse(msg) == msg.json

BinaryMessage(chunk) ==
    [kind |-> "binary", json |-> NoJson, chunk |-> chunk,
     bytes |-> byteLength(chunk)]

RECURSIVE SumBytes(_)
SumBytes(msgs) ==
    IF msgs = <<>> THEN 0 ELSE Head(msgs).bytes + SumBytes(Tail(msgs))

\* channel.bufferedAmount: the bytes handed to send() the transport has not taken
bufferedAmount(ch) == SumBytes(SubSeq(ch.sent, ch.drained + 1, Len(ch.sent)))

(***************************************************************************)
(* new Blob(chunks, {type}): the concatenation of the chunks.              *)
(***************************************************************************)
Blob(chunks, type) == [parts |-> chunks, type |-> type]

RECURSIVE BlobSize(_)
BlobSize(parts) ==
    IF parts = <<>> THEN 0 ELSE byteLength(Head(parts)) + BlobSize(Tail(parts))

\* the bytes of a sequence of chunks: empty ranges dropped, adjacent ranges joined
RECURSIVE Bytes(_)
Bytes(parts) ==
    IF parts = <<>> THEN <<>>
    ELSE LET h == Head(parts)
             r == Bytes(Tail(parts))
         IN  IF h.lo = h.hi THEN r
             ELSE IF r # <<>> /\ r[1].src = h.src /\ r[1].lo = h.hi
                  THEN <<[src |-> h.src, lo |-> h.lo, hi |-> r[1].hi]>> \o Tail(r)
                  ELSE <<h>> \o r

\* the bytes of a whole file
FileBytes(file) == Bytes(<<Slice(file, 0, file.size)>>)

(***************************************************************************)
(* Sessions.                                                               *)
(***************************************************************************)
NullMetadata ==
    [isSet |-> FALSE, type |-> "", fileName |-> "", fileSize |-> 0, fileType |-> ""]

\* the object _handleSignal stores from an offer (it has no type field)
OfferMetadata(data) ==
    [isSet |-> TRUE, type |-> "", fileName |-> data.fileName,
     fileSize |-> data.fileSize, fileType |-> data.fileType]

\* the parsed Metadata control frame, stored as it is
FrameMetadata(json) ==
    [isSet |-> TRUE, type |-> json.type, fileName |-> json.fileName,
     fileSize |-> json.fileSize, fileType |-> json.fileType]

\* new RTCPeerConnection and its peerData
NewPeerData(i, peerId, isInitiator) ==
    [inst |-> i, peer |-> peerId, isInitiator |-> isInitiator,
     receivedChunks |-> <<>>, receivedBytes |-> 0, fileMetadata |-> NullMetadata,
     progress |-> <<>>,       \* history: the session's onProgress calls as receiver
     firstChunkMetadata |-> NullMetadata, \* history: fileMetadata at the first chunk
     closed |-> FALSE, remote |-> 0, hasLocal |-> FALSE,
     connectionState |-> "new"]

Has(i, peerId) == peers[i][peerId] # 0

\* the two connections have applied each other's descriptions and are open
Connected(x) ==
    /\ env.connectivity
    /\ ~pcs[x].closed
    /\ pcs[x].remote # 0
    /\ ~pcs[pcs[x].remote].closed
    /\ pcs[pcs[x].remote].remote = x

(***************************************************************************)
(* Signaling payloads.                                                     *)
(***************************************************************************)
OfferSignal(sdp, file) ==
    [type |-> "offer", sdp |-> sdp, fileName |-> file.name,
     fileSize |-> file.size, fileType |-> file.type]

AnswerSignal(sdp) ==
    [type |-> "answer", sdp |-> sdp, fileName |-> "", fileSize |-> 0, fileType |-> ""]

CandidateSignal(sdp) ==
    [type |-> "ice-candidate", sdp |-> sdp, fileName |-> "", fileSize |-> 0,
     fileType |-> ""]

NoData == [type |-> "", sdp |-> 0, fileName |-> "", fileSize |-> 0, fileType |-> ""]

\* _sendSignal(to, data): socket.emit, relayed to the addressee with the sender's id
SendSignalTo(from, to, data) ==
    [signals EXCEPT ![to] = Append(@, [from |-> from, data |-> data])]

\* an onError call: the endpoint, the handler that caught or reported the error,
\* the operation that failed, and the call, offer or channel it belongs to
Error(i, origin, kind, ref) ==
    [inst |-> i, origin |-> origin, kind |-> kind, ref |-> ref]

(***************************************************************************)
(* The registry.                                                           *)
(***************************************************************************)
\* Variant without the lookup: a session is created on every call.
createPeerConnection(i, peerId, isInitiator) ==
    [pc |-> Len(pcs) + 1,
     peers |-> [peers EXCEPT ![i][peerId] = Len(pcs) + 1],
     pcs |-> Append(pcs, NewPeerData(i, peerId, isInitiator))]

\* Variant keyed by role: the registered session is reused only by a caller of
\* the role that created it.
getOrCreatePerRole(i, peerId, isInitiator) ==
    IF Has(i, peerId) /\ pcs[peers[i][peerId]].isInitiator = isInitiator
    THEN [pc |-> peers[i][peerId], peers |-> peers, pcs |-> pcs]
    ELSE createPeerConnection(i, peerId, isInitiator)

\* _getOrCreatePeerConnection(peerId, isInitiator): the connection it returns,
\* and the registry and the sessions after it.  It has no await: the lookup
\* and the insertion run in one step.
getOrCreatePeerConnection(i, peerId, isInitiator) ==
    IF Has(i, peerId)
    THEN [pc |-> peers[i][peerId], peers |-> peers, pcs |-> pcs]
    ELSE [pc |-> Len(pcs) + 1,
          peers |-> [peers EXCEPT ![i][peerId] = Len(pcs) + 1],
          pcs |-> Append(pcs, NewPeerData(i, peerId, isInitiator))]

\* _cleanupPeer(peerId) on registry R and sessions P: pc.close() and delete
cleanupPeer(P, R, i, peerId) ==
    IF R[i][peerId] # 0
    THEN [pcs |-> [P EXCEPT ![R[i][peerId]].closed = TRUE,
                            ![R[i][peerId]].connectionState = "closed"],
          peers |-> [R EXCEPT ![i][peerId] = 0]]
    ELSE [pcs |-> P, peers |-> R]

\* this.peers.forEach((peerData, peerId) => this._cleanupPeer(peerId))
RECURSIVE cleanupAll(_, _, _, _)
cleanupAll(P, R, i, ids) ==
    IF ids = {} THEN [pcs |-> P, peers |-> R]
    ELSE LET p == CHOOSE q \in ids : TRUE
             c == cleanupPeer(P, R, i, p)
         IN  cleanupAll(c.pcs, c.peers, i, ids \ {p})

(***************************************************************************)
(* Data channels.                                                          *)
(***************************************************************************)
\* pc.createDataChannel('fileTransfer') with the handlers of _setupDataChannel
NewChannel(pc, call, file) ==
    [pc |-> pc, call |-> call, file |-> file, state |-> "connecting",
     sent |-> <<>>, drained |-> 0, delivered |-> 0,
     offset |-> 0, reader |-> "idle", slice |-> NoChunk, progress |-> <<>>,
     rpc |-> 0, rsess |-> 0, rclosed |-> FALSE, errs |-> {},
     malformed |-> {}]

\* channel.readyState on the sender's side
readyState(ch) == IF pcs[ch.pc].closed THEN "closed" ELSE ch.state

\* readSlice(): file.slice(offset, offset + chunkSize) handed to the reader
readSlice(ch, offset) ==
    [ch EXCEPT !.reader = "reading",
               !.slice = Slice(ch.file, offset, offset + chunkSize)]

\* channel.send(msg)
send(ch, msg) == [ch EXCEPT !.sent = Append(@, msg)]

\* the settled state of sendFile's promise once its catch block has run
PromiseAfterCatch == "resolved"

Task(kind, step, i, pc, peerId, call, data) ==
    [kind |-> kind, step |-> step, inst |-> i, pc |-> pc, peer |-> peerId,
     call |-> call, data |-> data]

Resume(t, step) == (tasks \ {t}) \cup {[t EXCEPT !.step = step]}

(***************************************************************************)
(* The environment of one run: the sendFile calls the application may      *)
(* still make (per caller and target), the files it sends, the faults the  *)
(* network and the browser may still raise (a rejected negotiation step, a *)
(* channel error, a lost connection), the destroy() calls the application  *)
(* may still make, the ICE candidates the connections may still produce,   *)
(* whether the browser reports connection states, and whether the two      *)
(* endpoints can reach each other.                                         *)
(***************************************************************************)
Pairs == {q \in Inst \X Inst : q[1] # q[2]}

SendsOf(S) == [q \in Pairs |-> IF q \in DOMAIN S THEN S[q] ELSE 0]

Scenario(sends, files, faults, destroys, candidates, stateEvents, connectivity) ==
    [sends |-> SendsOf(sends), files |-> files, faults |-> faults,
     destroys |-> destroys, candidates |-> candidates,
     stateEvents |-> stateEvents, connectivity |-> connectivity, frames |-> 0]

\* the scenario in which the remote end may also send frames outside the protocol
Malformed(scenario) == [scenario EXCEPT !.frames = MaxFrames]

FilesOf(name) ==
    CASE name = "small" -> SmallFiles
      [] name = "one" -> OneFile
      [] name = "scenario" -> ScenarioFiles
      [] name = "big" -> BigFiles

Scenarios ==
    { \* two transfers to one peer that overlap
      Scenario(<<"a", "b">> :> 2, "small", 0, 0, 0, FALSE, TRUE),
      \* one transfer with faults of the negotiation and of the channel
      Scenario(<<"a", "b">> :> 1, "small", MaxFaults, 0, 0, TRUE, TRUE),
      \* one transfer with destroy() and late candidates
      Scenario(<<"a", "b">> :> 1, "small", 0, MaxDestroys, MaxCandidates,
               FALSE, TRUE),
      \* one transfer with destroy() and the connection's state events
      Scenario(<<"a", "b">> :> 1, "small", 0, MaxDestroys, 0, TRUE, TRUE),
      \* two endpoints that send to each other, with frames outside the protocol
      Malformed(Scenario(<<"a", "b">> :> 1 @@ <<"b", "a">> :> 1, "one", 0, 0, 0,
                         FALSE, TRUE)),
      \* one transfer of each size around the chunk size
      Scenario(<<"a", "b">> :> 1, "scenario", 0, 0, 0, FALSE, TRUE),
      \* one transfer longer than the send buffer's threshold
      Scenario(<<"a", "b">> :> 1, "big", 0, 0, 0, FALSE, TRUE),
      \* one such transfer with destroy()
      Scenario(<<"a", "b">> :> 1, "big", 0, MaxDestroys, 0, FALSE, TRUE),
      \* two endpoints that send to each other and never connect, with faults
      Scenario(<<"a", "b">> :> 1 @@ <<"b", "a">> :> 1, "one", MaxFaults, 0,
               0, TRUE, FALSE),
      \* two endpoints that send to each other and never connect, with destroy()
      Scenario(<<"a", "b">> :> 1 @@ <<"b", "a">> :> 1, "one", 0, MaxDestroys,
               0, TRUE, FALSE),
      \* one endpoint with sessions for two peers, torn down
      Scenario(<<"a", "b">> :> 1 @@ <<"a", "c">> :> 1, "one", 0, MaxDestroys, 0,
               FALSE, FALSE) }

Init ==
    /\ peers = [i \in Inst |-> [p \in Inst |-> 0]]
    /\ listening = [i \in Inst |-> TRUE]
    /\ pcs = <<>>
    /\ calls = <<>>
    /\ chans = <<>>
    /\ tasks = {}
    /\ signals = [i \in Inst |-> <<>>]
    /\ errors = {}
    /\ completions = <<>>
    /\ stateChanges = {}
    /\ destroyed = [i \in Inst |-> FALSE]
    /\ ignored = [i \in Inst |-> [detached |-> 0, unknownPeer |-> 0]]
    /\ env \in Scenarios

\* the assignment peerData.fileMetadata = m
SetMetadata(P, s, m) ==
    [P EXCEPT ![s].fileMetadata = m]

\* a step of the negotiation on connection x settles: it succeeds only on an
\* open connection, and fails on a closed one or by a fault of the environment
Settles(x, ok) ==
    IF ok THEN ~pcs[x].closed ELSE pcs[x].closed \/ env.faults > 0

EnvAfter(x, ok) ==
    IF ~ok /\ ~pcs[x].closed THEN [env EXCEPT !.faults = @ - 1] ELSE env

(***************************************************************************)
(* sendFile(targetId, file).  Each await is a point where the handler is    *)
(* suspended and other handlers run.                                       *)
(***************************************************************************)
\* the call, up to its first await (of _getOrCreatePeerConnection)
SendFile(i, targetId, file) ==
    /\ env.sends[<<i, targetId>>] > 0
    /\ file \in FilesOf(env.files)
    /\ env' = [env EXCEPT !.sends[<<i, targetId>>] = @ - 1]
    /\ LET r == getOrCreatePeerConnection(i, targetId, TRUE)
       IN  /\ peers' = r.peers
           /\ pcs' = r.pcs
           /\ calls' = Append(calls, [inst |-> i, target |-> targetId, file |-> file,
                                      promise |-> "pending", offerSent |-> FALSE,
                                      pc |-> r.pc])
           /\ tasks' = tasks \cup
                 {Task("sendFile", "createDataChannel", i, r.pc, targetId,
                       Len(calls) + 1, NoData)}
    /\ UNCHANGED <<listening, chans, signals, errors, completions, stateChanges,
                   destroyed, ignored>>

\* the catch block of sendFile: onError(err), and the async function returns
SendFileCatch(t, kind) ==
    /\ errors' = errors \cup {Error(t.inst, "sendFile", kind, t.call)}
    /\ calls' = [calls EXCEPT ![t.call].promise = PromiseAfterCatch]
    /\ tasks' = tasks \ {t}

\* pc.createDataChannel, _setupDataChannel(dataChannel, file, true), pc.createOffer()
SendFileCreateDataChannel(t) ==
    /\ t.kind = "sendFile" /\ t.step = "createDataChannel"
    /\ IF pcs[t.pc].closed
       THEN /\ SendFileCatch(t, "createDataChannel")
            /\ UNCHANGED chans
       ELSE /\ chans' = Append(chans, NewChannel(t.pc, t.call, calls[t.call].file))
            /\ tasks' = Resume(t, "createOffer")
            /\ UNCHANGED <<errors, calls>>
    /\ UNCHANGED <<peers, listening, pcs, signals, completions, stateChanges,
                   destroyed, ignored, env>>

\* createOffer settles; on success pc.setLocalDescription(offer) is called
SendFileOfferCreated(t, ok) ==
    /\ t.kind = "sendFile" /\ t.step = "createOffer"
    /\ Settles(t.pc, ok)
    /\ env' = EnvAfter(t.pc, ok)
    /\ IF ok
       THEN /\ tasks' = Resume(t, "setLocalDescription")
            /\ UNCHANGED <<errors, calls>>
       ELSE SendFileCatch(t, "createOffer")
    /\ UNCHANGED <<peers, listening, pcs, chans, signals, completions,
                   stateChanges, destroyed,
                   ignored>>

\* setLocalDescription settles; on success the offer is signalled
SendFileLocalDescriptionSet(t, ok) ==
    /\ t.kind = "sendFile" /\ t.step = "setLocalDescription"
    /\ Settles(t.pc, ok)
    /\ env' = EnvAfter(t.pc, ok)
    /\ IF ok
       THEN /\ pcs' = [pcs EXCEPT ![t.pc].hasLocal = TRUE]
            /\ signals' = SendSignalTo(t.inst, t.peer,
                                       OfferSignal(t.pc, calls[t.call].file))
            /\ calls' = [calls EXCEPT ![t.call].promise = "resolved",
                                      ![t.call].offerSent = TRUE]
            /\ tasks' = tasks \ {t}
            /\ UNCHANGED errors
       ELSE /\ SendFileCatch(t, "setLocalDescription")
            /\ UNCHANGED <<pcs, signals>>
    /\ UNCHANGED <<peers, listening, chans, completions, stateChanges, destroyed,
                   ignored>>

(***************************************************************************)
(* _handleSignal(message).                                                 *)
(***************************************************************************)
\* an offer, up to the await of _getOrCreatePeerConnection
HandleOffer(i) ==
    /\ listening[i] /\ signals[i] # <<>>
    /\ Head(signals[i]).data.type = "offer"
    /\ LET m == Head(signals[i])
           r == getOrCreatePeerConnection(i, m.from, FALSE)
       IN  /\ peers' = r.peers
           /\ pcs' = r.pcs
           /\ tasks' = tasks \cup
                 {Task("offer", "storeMetadata", i, r.pc, m.from, 0, m.data)}
    /\ signals' = [signals EXCEPT ![i] = Tail(@)]
    /\ UNCHANGED <<listening, calls, chans, errors, completions, stateChanges,
                   destroyed, ignored, env>>

\* the catch block of _handleSignal
HandleSignalCatch(t, kind) ==
    /\ errors' = errors \cup {Error(t.inst, "_handleSignal", kind, t.pc)}
    /\ tasks' = tasks \ {t}

\* peerData = this.peers.get(from); peerData.fileMetadata = {...};
\* pc.setRemoteDescription(...) is called
OfferStoreMetadata(t) ==
    /\ t.kind = "offer" /\ t.step = "storeMetadata"
    /\ IF ~Has(t.inst, t.peer)
       THEN /\ HandleSignalCatch(t, "TypeError")
            /\ UNCHANGED pcs
       ELSE /\ pcs' = SetMetadata(pcs, peers[t.inst][t.peer], OfferMetadata(t.data))
            /\ tasks' = Resume(t, "setRemoteDescription")
            /\ UNCHANGED errors
    /\ UNCHANGED <<peers, listening, calls, chans, signals, completions,
                   stateChanges, destroyed, ignored, env>>

\* setRemoteDescription(offer) settles; on success pc.createAnswer() is called
OfferRemoteDescriptionSet(t, ok) ==
    /\ t.kind = "offer" /\ t.step = "setRemoteDescription"
    /\ Settles(t.pc, ok)
    /\ env' = EnvAfter(t.pc, ok)
    /\ IF ok
       THEN /\ pcs' = [pcs EXCEPT ![t.pc].remote = t.data.sdp]
            /\ tasks' = Resume(t, "createAnswer")
            /\ UNCHANGED errors
       ELSE /\ HandleSignalCatch(t, "setRemoteDescription")
            /\ UNCHANGED pcs
    /\ UNCHANGED <<peers, listening, calls, chans, signals, completions,
                   stateChanges, destroyed,
                   ignored>>

\* createAnswer settles; on success pc.setLocalDescription(answer) is called
OfferAnswerCreated(t, ok) ==
    /\ t.kind = "offer" /\ t.step = "createAnswer"
    /\ Settles(t.pc, ok)
    /\ env' = EnvAfter(t.pc, ok)
    /\ IF ok
       THEN /\ tasks' = Resume(t, "setLocalDescription")
            /\ UNCHANGED errors
       ELSE HandleSignalCatch(t, "createAnswer")
    /\ UNCHANGED <<peers, listening, pcs, calls, chans, signals, completions,
                   stateChanges, destroyed,
                   ignored>>

\* setLocalDescription(answer) settles; on success the answer is signalled
OfferLocalDescriptionSet(t, ok) ==
    /\ t.kind = "offer" /\ t.step = "setLocalDescription"
    /\ Settles(t.pc, ok)
    /\ env' = EnvAfter(t.pc, ok)
    /\ IF ok
       THEN /\ pcs' = [pcs EXCEPT ![t.pc].hasLocal = TRUE]
            /\ signals' = SendSignalTo(t.inst, t.peer, AnswerSignal(t.pc))
            /\ tasks' = tasks \ {t}
            /\ UNCHANGED errors
       ELSE /\ HandleSignalCatch(t, "setLocalDescription")
            /\ UNCHANGED <<pcs, signals>>
    /\ UNCHANGED <<peers, listening, calls, chans, completions, stateChanges,
                   destroyed, ignored>>

\* Variant that reports a signal from a peer with no session as an error.
HandleAnswerOrCandidateStrict(i) ==
    /\ listening[i] /\ signals[i] # <<>>
    /\ Head(signals[i]).data.type \in {"answer", "ice-candidate"}
    /\ LET m == Head(signals[i])
       IN  /\ tasks' = IF Has(i, m.from)
                       THEN tasks \cup
                            {Task(m.data.type,
                                  IF m.data.type = "answer" THEN "setRemoteDescription"
                                  ELSE "addIceCandidate",
                                  i, peers[i][m.from], m.from, 0, m.data)}
                       ELSE tasks
           /\ ignored' = IF Has(i, m.from) THEN ignored
                         ELSE [ignored EXCEPT ![i].unknownPeer = @ + 1]
           /\ errors' = IF Has(i, m.from) THEN errors
                        ELSE errors \cup {Error(i, "_handleSignal", "UnknownPeer", 0)}
    /\ signals' = [signals EXCEPT ![i] = Tail(@)]
    /\ UNCHANGED <<peers, listening, pcs, calls, chans, completions,
                   stateChanges, destroyed, env>>

\* an answer or a candidate: this.peers.get(from); with a session, the call
\* of setRemoteDescription or addIceCandidate on its connection is awaited;
\* without one the message is dropped
HandleAnswerOrCandidate(i) ==
    /\ listening[i] /\ signals[i] # <<>>
    /\ Head(signals[i]).data.type \in {"answer", "ice-candidate"}
    /\ LET m == Head(signals[i])
       IN  /\ tasks' = IF Has(i, m.from)
                       THEN tasks \cup
                            {Task(m.data.type,
                                  IF m.data.type = "answer" THEN "setRemoteDescription"
                                  ELSE "addIceCandidate",
                                  i, peers[i][m.from], m.from, 0, m.data)}
                       ELSE tasks
           /\ ignored' = IF Has(i, m.from) THEN ignored
                         ELSE [ignored EXCEPT ![i].unknownPeer = @ + 1]
    /\ signals' = [signals EXCEPT ![i] = Tail(@)]
    /\ UNCHANGED <<peers, listening, pcs, calls, chans, errors, completions,
                   stateChanges, destroyed, env>>

\* setRemoteDescription(answer) settles
AnswerRemoteDescriptionSet(t, ok) ==
    /\ t.kind = "answer" /\ t.step = "setRemoteDescription"
    /\ Settles(t.pc, ok)
    /\ env' = EnvAfter(t.pc, ok)
    /\ IF ok
       THEN /\ pcs' = [pcs EXCEPT ![t.pc].remote = t.data.sdp]
            /\ tasks' = tasks \ {t}
            /\ UNCHANGED errors
       ELSE /\ HandleSignalCatch(t, "setRemoteDescription")
            /\ UNCHANGED pcs
    /\ UNCHANGED <<peers, listening, calls, chans, signals, completions,
                   stateChanges, destroyed,
                   ignored>>

\* addIceCandidate settles
CandidateAdded(t, ok) ==
    /\ t.kind = "ice-candidate" /\ t.step = "addIceCandidate"
    /\ Settles(t.pc, ok)
    /\ env' = EnvAfter(t.pc, ok)
    /\ IF ok
       THEN /\ tasks' = tasks \ {t}
            /\ UNCHANGED errors
       ELSE HandleSignalCatch(t, "addIceCandidate")
    /\ UNCHANGED <<peers, listening, pcs, calls, chans, signals, completions,
                   stateChanges, destroyed,
                   ignored>>

\* a signal relayed to an endpoint whose listener is detached: nothing runs
DropSignal(i) ==
    /\ ~listening[i] /\ signals[i] # <<>>
    /\ signals' = [signals EXCEPT ![i] = Tail(@)]
    /\ ignored' = [ignored EXCEPT ![i].detached = @ + 1]
    /\ UNCHANGED <<peers, listening, pcs, calls, chans, tasks, errors, completions,
                   stateChanges, destroyed, env>>

(***************************************************************************)
(* The connection's events.                                                *)
(***************************************************************************)
\* pc.onicecandidate with a candidate
IceCandidate(x) ==
    /\ ~pcs[x].closed /\ pcs[x].hasLocal
    /\ env.candidates > 0
    /\ env' = [env EXCEPT !.candidates = @ - 1]
    /\ signals' = SendSignalTo(pcs[x].inst, pcs[x].peer, CandidateSignal(x))
    /\ UNCHANGED <<peers, listening, pcs, calls, chans, tasks, errors, completions,
                   stateChanges, destroyed,
                   ignored>>

\* the other end of connection x has closed
RemoteClosed(x) == pcs[x].remote # 0 /\ pcs[pcs[x].remote].closed

\* the states the connection can move to (close() itself fires no event):
\* it is lost when the other end has closed, or by a fault of the environment
NextConnectionStates(x) ==
    LET lost == IF RemoteClosed(x) \/ env.faults > 0
                THEN {"disconnected", "failed"} ELSE {}
    IN  CASE pcs[x].connectionState = "new" ->
                IF pcs[x].hasLocal \/ pcs[x].remote # 0 THEN {"connecting"} ELSE {}
          [] pcs[x].connectionState = "connecting" ->
                (IF Connected(x) THEN {"connected"} ELSE {}) \cup (lost \ {"disconnected"})
          [] pcs[x].connectionState = "connected" -> lost
          [] OTHER -> {}

\* Variant that keeps the session when the connection is only disconnected.
IsTeardownStateNarrow(state) == state \in {"failed", "closed"}

\* the states on which onconnectionstatechange tears the session down
IsTeardownState(state) == state \in {"disconnected", "failed", "closed"}

\* pc.onconnectionstatechange
ConnectionStateChange(x, state) ==
    /\ env.stateEvents
    /\ ~pcs[x].closed
    /\ state \in NextConnectionStates(x)
    /\ env' = IF IsTeardownState(state) /\ ~RemoteClosed(x)
              THEN [env EXCEPT !.faults = @ - 1] ELSE env
    /\ stateChanges' = stateChanges \cup
          {[inst |-> pcs[x].inst, peer |-> pcs[x].peer, state |-> state, pc |-> x]}
    /\ LET P == [pcs EXCEPT ![x].connectionState = state]
           c == IF IsTeardownState(state)
                THEN cleanupPeer(P, peers, pcs[x].inst, pcs[x].peer)
                ELSE [pcs |-> P, peers |-> peers]
       IN  pcs' = c.pcs /\ peers' = c.peers
    /\ UNCHANGED <<listening, calls, chans, tasks, signals, errors, completions,
                   destroyed, ignored>>

\* the connection at the other end of a channel's connection
RemoteOf(ch) == pcs[ch.pc].remote

\* pc.ondatachannel: _setupDataChannel(event.channel, null, false, peerId),
\* which captures peerData = this.peers.get(peerId)
DataChannelEvent(c) ==
    /\ chans[c].rpc = 0 /\ readyState(chans[c]) # "closed"
    /\ Connected(chans[c].pc)
    /\ LET y == RemoteOf(chans[c])
       IN  chans' = [chans EXCEPT ![c].rpc = y,
                                  ![c].rsess = peers[pcs[y].inst][pcs[y].peer]]
    /\ UNCHANGED <<peers, listening, pcs, calls, tasks, signals, errors,
                   completions, stateChanges, destroyed, ignored, env>>

(***************************************************************************)
(* The sender: _sendFileInChunks(channel, file).                           *)
(***************************************************************************)
\* channel.onopen: the Metadata frame is sent and the first slice is read
ChannelOpen(c) ==
    /\ readyState(chans[c]) = "connecting"
    /\ Connected(chans[c].pc)
    /\ chans' = [chans EXCEPT ![c] =
          readSlice(send([@ EXCEPT !.state = "open"],
                         JSONstringify(MetadataJson(@.file))), 0)]
    /\ UNCHANGED <<peers, listening, pcs, calls, tasks, signals, errors,
                   completions, stateChanges, destroyed, ignored, env>>

\* whether the sender waits before reading the next slice
BufferFull(ch) == bufferedAmount(ch) > chunkSize * BufferFactor

\* Variant in which the sender stops after the last slice without an End frame.
AfterLastSliceSilent(ch) == [ch EXCEPT !.reader = "idle"]

\* what the sender does once the whole file is out: the End frame
AfterLastSlice(ch) == send([ch EXCEPT !.reader = "idle"], JSONstringify(EndJson))

\* Variant that advances the offset by chunkSize instead of the bytes read.
onloadFixedStep(ch) ==
    LET result == ch.slice
        offset == ch.offset + chunkSize
        sent == [send(ch, BinaryMessage(result)) EXCEPT
                    !.offset = offset,
                    !.progress = Append(@, <<offset, ch.file.size>>)]
    IN  IF offset < ch.file.size
        THEN IF BufferFull(sent)
             THEN [sent EXCEPT !.reader = "timer"]
             ELSE readSlice(sent, offset)
        ELSE AfterLastSlice(sent)

\* reader.onload on a channel whose readyState is 'open'
onload(ch) ==
    LET result == ch.slice
        offset == ch.offset + byteLength(result)
        sent == [send(ch, BinaryMessage(result)) EXCEPT
                    !.offset = offset,
                    !.progress = Append(@, <<offset, ch.file.size>>)]
    IN  IF offset < ch.file.size
        THEN IF BufferFull(sent)
             THEN [sent EXCEPT !.reader = "timer"]
             ELSE readSlice(sent, offset)
        ELSE AfterLastSlice(sent)

\* Variant of reader.onload that does not look at channel.readyState.
ReaderLoadUnchecked(c) ==
    /\ chans[c].reader = "reading"
    /\ chans' = [chans EXCEPT ![c] = onload(@)]
    /\ UNCHANGED <<peers, listening, pcs, calls, tasks, signals, errors,
                   completions, stateChanges, destroyed, ignored, env>>

\* reader.onload
ReaderLoad(c) ==
    /\ chans[c].reader = "reading"
    /\ chans' = [chans EXCEPT ![c] =
          IF readyState(@) = "open" THEN onload(@) ELSE [@ EXCEPT !.reader = "idle"]]
    /\ UNCHANGED <<peers, listening, pcs, calls, tasks, signals, errors,
                   completions, stateChanges, destroyed, ignored, env>>

\* setTimeout(readSlice, 100) fires
TimerFire(c) ==
    /\ chans[c].reader = "timer"
    /\ chans' = [chans EXCEPT ![c] = readSlice(@, @.offset)]
    /\ UNCHANGED <<peers, listening, pcs, calls, tasks, signals, errors,
                   completions, stateChanges, destroyed, ignored, env>>

\* the transport takes the next buffered message: bufferedAmount goes down
Drain(c) ==
    /\ readyState(chans[c]) = "open"
    /\ Connected(chans[c].pc)
    /\ chans[c].drained < Len(chans[c].sent)
    /\ chans' = [chans EXCEPT ![c].drained = @ + 1]
    /\ UNCHANGED <<peers, listening, pcs, calls, tasks, signals, errors,
                   completions, stateChanges, destroyed, ignored, env>>

\* the sender's channel closes because the other end has closed
ChannelClosed(c) ==
    /\ readyState(chans[c]) \in {"connecting", "open"}
    /\ chans[c].rclosed \/ RemoteClosed(chans[c].pc)
    /\ chans' = [chans EXCEPT ![c].state = "closed"]
    /\ UNCHANGED <<peers, listening, pcs, calls, tasks, signals, errors,
                   completions, stateChanges, destroyed, ignored, env>>

\* channel.onerror, on the sender's or the receiver's side: onError(error).
\* The channel that reported the error is closed by the transport.
ChannelError(c, side) ==
    /\ env.faults > 0
    /\ env' = [env EXCEPT !.faults = @ - 1]
    /\ side \notin chans[c].errs
    /\ IF side = "sender"
       THEN /\ readyState(chans[c]) \in {"connecting", "open"}
            /\ chans' = [chans EXCEPT ![c].errs = @ \cup {side},
                                      ![c].state = "closed"]
            /\ errors' = errors \cup
                  {Error(pcs[chans[c].pc].inst, "channel.onerror", "sender", c)}
       ELSE /\ chans[c].rpc # 0 /\ ~chans[c].rclosed
            /\ ~pcs[chans[c].rpc].closed
            /\ chans' = [chans EXCEPT ![c].errs = @ \cup {side},
                                      ![c].rclosed = TRUE]
            /\ errors' = errors \cup
                  {Error(pcs[chans[c].rpc].inst, "channel.onerror", "receiver", c)}
    /\ UNCHANGED <<peers, listening, pcs, calls, tasks, signals, completions,
                   stateChanges, destroyed,
                   ignored>>

(***************************************************************************)
(* The receiver: channel.onmessage and _assembleFile(peerId).              *)
(***************************************************************************)
\* _assembleFile(peerId), called for the End frame of channel c, on sessions P,
\* registry R and completion log C
assembleFile(P, R, C, i, peerId, c) ==
    LET s == R[i][peerId]
    IN  IF s = 0 \/ ~P[s].fileMetadata.isSet
        THEN [pcs |-> P, peers |-> R, completions |-> C]
        ELSE LET cl == cleanupPeer(P, R, i, peerId)
             IN  [pcs |-> cl.pcs, peers |-> cl.peers,
                  completions |-> Append(C,
                     [inst |-> i, peer |-> peerId, sess |-> s, chan |-> c,
                      blob |-> Blob(P[s].receivedChunks, P[s].fileMetadata.fileType),
                      fileName |-> P[s].fileMetadata.fileName,
                      metadataAtFirstChunk |-> P[s].firstChunkMetadata])]

\* Variant that puts each chunk in front of the ones received before it.
onBinaryUnshift(P, s, msg) ==
    [P EXCEPT ![s].receivedChunks = <<msg.chunk>> \o @,
              ![s].receivedBytes = @ + byteLength(msg.chunk)]

\* Variant that pushes the chunk without counting its bytes.
onBinaryNoCount(P, s, msg) ==
    [P EXCEPT ![s].receivedChunks = Append(@, msg.chunk)]

\* a binary message: push, count, and report progress when metadata is known
onBinary(P, s, msg) ==
    LET bytes == P[s].receivedBytes + byteLength(msg.chunk)
    IN  [P EXCEPT ![s].receivedChunks = Append(@, msg.chunk),
                  ![s].receivedBytes = bytes,
                  ![s].firstChunkMetadata =
                        IF P[s].receivedChunks = <<>> THEN P[s].fileMetadata ELSE @,
                  ![s].progress = IF P[s].fileMetadata.isSet
                                  THEN Append(@, <<bytes, P[s].fileMetadata.fileSize>>)
                                  ELSE @]

\* channel.onmessage of channel c, whose handler captured session ch.rsess
onmessage(ch, c, msg) ==
    LET i == pcs[ch.rpc].inst
        peerId == pcs[ch.rpc].peer
        s == ch.rsess
        same == [pcs |-> pcs, peers |-> peers, completions |-> completions]
    IN  IF msg.kind = "text"
        THEN IF ~Parseable(msg)
             THEN same  \* JSON.parse throws: the handler's promise is rejected
             ELSE LET metadata == JSONparse(msg)
                  IN  IF metadata.type = "metadata"
                      THEN IF s = 0 THEN same
                           ELSE [same EXCEPT
                                   !.pcs = SetMetadata(pcs, s, FrameMetadata(metadata))]
                      ELSE IF metadata.type = "end"
                           THEN assembleFile(pcs, peers, completions, i, peerId, c)
                           ELSE same
        ELSE IF s = 0 THEN same
             ELSE [same EXCEPT !.pcs = onBinary(pcs, s, msg)]

\* the next message of channel c reaches the receiver's onmessage
Deliver(c) ==
    /\ chans[c].rpc # 0 /\ ~chans[c].rclosed
    /\ ~pcs[chans[c].rpc].closed
    /\ chans[c].delivered < chans[c].drained
    /\ LET r == onmessage(chans[c], c, chans[c].sent[chans[c].delivered + 1])
       IN  /\ pcs' = r.pcs
           /\ peers' = r.peers
           /\ completions' = r.completions
    /\ chans' = [chans EXCEPT ![c].delivered = @ + 1]
    /\ UNCHANGED <<listening, calls, tasks, signals, errors, stateChanges,
                   destroyed, ignored, env>>

\* the text frames of a remote end that does not keep to the protocol: a text
\* that is no JSON, and an End frame while the session has no metadata
MalformedMessage(kind) ==
    IF kind = "unparseable" THEN GarbageText ELSE JSONstringify(EndJson)

\* such a frame reaches the receiver's onmessage of channel c
DeliverMalformed(c, kind) ==
    /\ env.frames > 0
    /\ env' = [env EXCEPT !.frames = @ - 1]
    /\ chans[c].rpc # 0 /\ ~chans[c].rclosed
    /\ ~pcs[chans[c].rpc].closed
    /\ kind \notin chans[c].malformed
    /\ kind = "end" =>
          LET i == pcs[chans[c].rpc].inst
              peerId == pcs[chans[c].rpc].peer
          IN  ~Has(i, peerId) \/ ~pcs[peers[i][peerId]].fileMetadata.isSet
    /\ LET r == onmessage(chans[c], c, MalformedMessage(kind))
       IN  /\ pcs' = r.pcs
           /\ peers' = r.peers
           /\ completions' = r.completions
    /\ chans' = [chans EXCEPT ![c].malformed = @ \cup {kind}]
    /\ UNCHANGED <<listening, calls, tasks, signals, errors, stateChanges,
                   destroyed, ignored>>

(***************************************************************************)
(* destroy().                                                              *)
(***************************************************************************)
\* Variant of destroy() that leaves the listener attached.
socketStaysOn(L, i) == L

\* this.socket.off(this.signalEvent)
socketOff(L, i) == [L EXCEPT ![i] = FALSE]

Destroy(i) ==
    /\ env.destroys > 0
    /\ env' = [env EXCEPT !.destroys = @ - 1]
    /\ LET c == cleanupAll(pcs, peers, i, {p \in Inst : peers[i][p] # 0})
       IN  pcs' = c.pcs /\ peers' = c.peers
    /\ listening' = socketOff(listening, i)
    /\ destroyed' = [destroyed EXCEPT ![i] = TRUE]
    /\ UNCHANGED <<calls, chans, tasks, signals, errors, completions, stateChanges,
                   ignored>>

(***************************************************************************)
(* The specification.                                                      *)
(***************************************************************************)
Next ==
    \/ \E i \in Inst : \E p \in Inst \ {i}, f \in FilesOf(env.files) : SendFile(i, p, f)
    \/ \E t \in tasks : SendFileCreateDataChannel(t)
    \/ \E t \in tasks, ok \in BOOLEAN : SendFileOfferCreated(t, ok)
    \/ \E t \in tasks, ok \in BOOLEAN : SendFileLocalDescriptionSet(t, ok)
    \/ \E i \in Inst : HandleOffer(i)
    \/ \E t \in tasks : OfferStoreMetadata(t)
    \/ \E t \in tasks, ok \in BOOLEAN : OfferRemoteDescriptionSet(t, ok)
    \/ \E t \in tasks, ok \in BOOLEAN : OfferAnswerCreated(t, ok)
    \/ \E t \in tasks, ok \in BOOLEAN : OfferLocalDescriptionSet(t, ok)
    \/ \E i \in Inst : HandleAnswerOrCandidate(i)
    \/ \E t \in tasks, ok \in BOOLEAN : AnswerRemoteDescriptionSet(t, ok)
    \/ \E t \in tasks, ok \in BOOLEAN : CandidateAdded(t, ok)
    \/ \E i \in Inst : DropSignal(i)
    \/ \E x \in DOMAIN pcs : IceCandidate(x)
    \/ \E x \in DOMAIN pcs :
          \E state \in {"connecting", "connected", "disconnected", "failed"} :
             ConnectionStateChange(x, state)
    \/ \E c \in DOMAIN chans : DataChannelEvent(c)
    \/ \E c \in DOMAIN chans : ChannelOpen(c)
    \/ \E c \in DOMAIN chans : ReaderLoad(c)
    \/ \E c \in DOMAIN chans : TimerFire(c)
    \/ \E c \in DOMAIN chans : Drain(c)
    \/ \E c \in DOMAIN chans : Deliver(c)
    \/ \E c \in DOMAIN chans, kind \in {"unparseable", "end"} : DeliverMalformed(c, kind)
    \/ \E c \in DOMAIN chans : ChannelClosed(c)
    \/ \E c \in DOMAIN chans, side \in {"sender", "receiver"} : ChannelError(c, side)
    \/ \E i \in Inst : Destroy(i)

Spec == Init /\ [][Next]_vars

(***************************************************************************)
(* One transfer on a network without faults: the application makes one     *)
(* sendFile call and never calls destroy(), every step of the negotiation  *)
(* succeeds, the endpoints connect and the channel stays open.  The steps  *)
(* are those of Next that such a run can take.  The event loop runs every  *)
(* callback that is due (a settled promise, a relayed signal, a channel    *)
(* event, a finished file read, an expired timer), and the transport       *)
(* carries and delivers every message of an open channel.                  *)
(***************************************************************************)
LiveScenarios ==
    { Scenario(<<"a", "b">> :> 1, "scenario", 0, 0, 0, TRUE, TRUE),
      Scenario(<<"a", "b">> :> 1, "big", 0, 0, 0, TRUE, TRUE) }

LiveInit ==
    /\ peers = [i \in Inst |-> [p \in Inst |-> 0]]
    /\ listening = [i \in Inst |-> TRUE]
    /\ pcs = <<>>
    /\ calls = <<>>
    /\ chans = <<>>
    /\ tasks = {}
    /\ signals = [i \in Inst |-> <<>>]
    /\ errors = {}
    /\ completions = <<>>
    /\ stateChanges = {}
    /\ destroyed = [i \in Inst |-> FALSE]
    /\ ignored = [i \in Inst |-> [detached |-> 0, unknownPeer |-> 0]]
    /\ env \in LiveScenarios

LiveNext ==
    \/ \E i \in Inst : \E p \in Inst \ {i}, f \in FilesOf(env.files) : SendFile(i, p, f)
    \/ \E t \in tasks : SendFileCreateDataChannel(t)
    \/ \E t \in tasks, ok \in BOOLEAN : SendFileOfferCreated(t, ok)
    \/ \E t \in tasks, ok \in BOOLEAN : SendFileLocalDescriptionSet(t, ok)
    \/ \E i \in Inst : HandleOffer(i)
    \/ \E t \in tasks : OfferStoreMetadata(t)
    \/ \E t \in tasks, ok \in BOOLEAN : OfferRemoteDescriptionSet(t, ok)
    \/ \E t \in tasks, ok \in BOOLEAN : OfferAnswerCreated(t, ok)
    \/ \E t \in tasks, ok \in BOOLEAN : OfferLocalDescriptionSet(t, ok)
    \/ \E i \in Inst : HandleAnswerOrCandidate(i)
    \/ \E t \in tasks, ok \in BOOLEAN : AnswerRemoteDescriptionSet(t, ok)
    \/ \E x \in DOMAIN pcs :
          \E state \in {"connecting", "connected", "disconnected", "failed"} :
             ConnectionStateChange(x, state)
    \/ \E c \in DOMAIN chans : DataChannelEvent(c)
    \/ \E c \in DOMAIN chans : ChannelOpen(c)
    \/ \E c \in DOMAIN chans : ReaderLoad(c)
    \/ \E c \in DOMAIN chans : TimerFire(c)
    \/ \E c \in DOMAIN chans : Drain(c)
    \/ \E c \in DOMAIN chans : Deliver(c)
    \/ \E c \in DOMAIN chans : ChannelClosed(c)

\* a suspended handler resumes once the promise it awaits has settled
PromiseSettles ==
    \/ \E t \in tasks : SendFileCreateDataChannel(t)
    \/ \E t \in tasks, ok \in BOOLEAN : SendFileOfferCreated(t, ok)
    \/ \E t \in tasks, ok \in BOOLEAN : SendFileLocalDescriptionSet(t, ok)
    \/ \E t \in tasks : OfferStoreMetadata(t)
    \/ \E t \in tasks, ok \in BOOLEAN : OfferRemoteDescriptionSet(t, ok)
    \/ \E t \in tasks, ok \in BOOLEAN : OfferAnswerCreated(t, ok)
    \/ \E t \in tasks, ok \in BOOLEAN : OfferLocalDescriptionSet(t, ok)
    \/ \E t \in tasks, ok \in BOOLEAN : AnswerRemoteDescriptionSet(t, ok)

\* a relayed signal reaches the listener of its target
SignalArrives == \E i \in Inst : HandleOffer(i) \/ HandleAnswerOrCandidate(i)

Fairness ==
    /\ WF_vars(PromiseSettles)
    /\ WF_vars(SignalArrives)
    /\ WF_vars(\E c \in DOMAIN chans : DataChannelEvent(c))
    /\ WF_vars(\E c \in DOMAIN chans : ChannelOpen(c))
    /\ WF_vars(\E c \in DOMAIN chans : ReaderLoad(c))
    /\ WF_vars(\E c \in DOMAIN chans : TimerFire(c))
    /\ WF_vars(\E c \in DOMAIN chans : Drain(c))
    /\ WF_vars(\E c \in DOMAIN chans : Deliver(c))

LiveSpec == LiveInit /\ [][LiveNext]_vars /\ Fairness

(***************************************************************************)
(* Definitions the properties use.                                         *)
(***************************************************************************)
\* the binary chunks among a channel's messages, in order
RECURSIVE ChunksOf(_)
ChunksOf(msgs) ==
    IF msgs = <<>> THEN <<>>
    ELSE (IF Head(msgs).kind = "binary" THEN <<Head(msgs).chunk>> ELSE <<>>)
         \o ChunksOf(Tail(msgs))

\* the channels whose receiving handler captured session s
FeedersOf(s) == {c \in DOMAIN chans : chans[c].rsess = s}

\* the sender has put the End frame on the channel
EndSent(ch) == ch.sent # <<>> /\ ch.sent[Len(ch.sent)].json.type = "end"

Ceil(n, d) == (n + d - 1) \div d

(***************************************************************************)
(* C1.  Round trip of one transfer: when the completion callback fires for *)
(* a session fed by one channel, the blob's parts are the binary chunks    *)
(* the sender put on that channel, in send order, their bytes are the      *)
(* file's bytes, each chunk is at most chunkSize long and only the last    *)
(* may be shorter.                                                         *)
(***************************************************************************)
C1_RoundTrip ==
    \A k \in DOMAIN completions :
        LET cp == completions[k]
        IN  Cardinality(FeedersOf(cp.sess)) = 1 =>
              LET c == CHOOSE f \in FeedersOf(cp.sess) : TRUE
                  chunks == ChunksOf(chans[c].sent)
              IN  /\ cp.blob.parts = chunks
                  /\ Bytes(cp.blob.parts) = FileBytes(chans[c].file)
                  /\ BlobSize(cp.blob.parts) = chans[c].file.size
                  /\ \A n \in DOMAIN chunks :
                        /\ byteLength(chunks[n]) <= chunkSize
                        /\ n < Len(chunks) => byteLength(chunks[n]) = chunkSize

\* a file longer than one chunk has been received whole
C1_Witness ==
    \E k \in DOMAIN completions :
        /\ Cardinality(FeedersOf(completions[k].sess)) = 1
        /\ Len(completions[k].blob.parts) >= 2
        /\ BlobSize(completions[k].blob.parts) > chunkSize
        /\ BlobSize(completions[k].blob.parts) % chunkSize # 0

(***************************************************************************)
(* C2.  At most one session per peer: no endpoint has two live sessions    *)
(* for one peer identifier, every live session is the one registered for   *)
(* its peer, and no step replaces a registered session by another: an      *)
(* entry only goes from absent to a session or from a session to absent.   *)
(***************************************************************************)
C2_AtMostOneSession ==
    /\ [](\A x \in DOMAIN pcs :
             ~pcs[x].closed => peers[pcs[x].inst][pcs[x].peer] = x)
    /\ [][\A i \in Inst, p \in Inst :
             peers[i][p] # 0 => peers'[i][p] \in {0, peers[i][p]}]_vars

\* a sendFile to P and an offer from P are both suspended on P's one session
C2_Witness ==
    \E t1 \in tasks, t2 \in tasks :
        /\ t1.kind = "sendFile" /\ t2.kind = "offer"
        /\ t1.inst = t2.inst /\ t1.peer = t2.peer
        /\ t1.pc = t2.pc
        /\ peers[t1.inst][t1.peer] = t1.pc

(***************************************************************************)
(* C3 as stated.  Completion consistency: the completion callback fires at *)
(* most once per session, only for an End frame received on a channel of   *)
(* that session, and with metadata that was assigned before the session's  *)
(* first binary chunk was processed: the name and type it is given are     *)
(* those the session's metadata had at that chunk.                         *)
(***************************************************************************)
C3_CompletionConsistency ==
    /\ \A k1 \in DOMAIN completions, k2 \in DOMAIN completions :
          completions[k1].sess = completions[k2].sess => k1 = k2
    /\ \A k \in DOMAIN completions :
          LET cp == completions[k]
              ch == chans[cp.chan]
          IN  /\ ch.rsess = cp.sess
              /\ ch.delivered > 0
              /\ ch.sent[ch.delivered].json.type = "end"
              /\ cp.metadataAtFirstChunk.isSet
              /\ cp.fileName = cp.metadataAtFirstChunk.fileName
              /\ cp.blob.type = cp.metadataAtFirstChunk.fileType

(***************************************************************************)
(* C4 as stated.  Flow control bound: the bytes buffered on a channel      *)
(* never exceed 10 x chunkSize plus one chunk.  Only the bytes of the file *)
(* chunks are counted here, so the control frames cannot break the bound.  *)
(***************************************************************************)
RECURSIVE ChunkBytes(_)
ChunkBytes(msgs) ==
    IF msgs = <<>> THEN 0
    ELSE (IF Head(msgs).kind = "binary" THEN Head(msgs).bytes ELSE 0)
         + ChunkBytes(Tail(msgs))

BufferedChunkBytes(ch) ==
    ChunkBytes(SubSeq(ch.sent, ch.drained + 1, Len(ch.sent)))

C4_FlowControlBound ==
    \A c \in DOMAIN chans :
        BufferedChunkBytes(chans[c]) <= (BufferFactor + 1) * chunkSize

(***************************************************************************)
(* C5 as stated.  A second sendFile to the same peer opens no second data  *)
(* channel: no two channels are created on one session's connection.       *)
(***************************************************************************)
C5_NoSecondChannel ==
    \A c1 \in DOMAIN chans, c2 \in DOMAIN chans :
        chans[c1].pc = chans[c2].pc => c1 = c2

(***************************************************************************)
(* C5 as amended.  A sendFile to a peer that has a session in the registry *)
(* reuses that session and its connection: the call creates no session,    *)
(* leaves the registry as it is and gets the registered connection; and    *)
(* every call that creates a data channel creates its own, on the          *)
(* connection the call got.                                                *)
(***************************************************************************)
C5_ReusesConnection ==
    /\ [](\A c1 \in DOMAIN chans, c2 \in DOMAIN chans :
             /\ chans[c1].pc = calls[chans[c1].call].pc
             /\ chans[c1].call = chans[c2].call => c1 = c2)
    /\ [][Len(calls') = Len(calls) + 1 =>
             LET k == Len(calls')
                 i == calls'[k].inst
                 p == calls'[k].target
             IN  Has(i, p) =>
                    /\ pcs' = pcs
                    /\ peers' = peers
                    /\ calls'[k].pc = peers[i][p]]_vars

\* two calls for one peer have each opened a data channel on the same connection
C5_Witness ==
    \E c1 \in DOMAIN chans, c2 \in DOMAIN chans :
        /\ c1 # c2
        /\ chans[c1].pc = chans[c2].pc
        /\ ~EndSent(chans[c1])
        /\ peers[pcs[chans[c1].pc].inst][pcs[chans[c1].pc].peer] = chans[c1].pc

(***************************************************************************)
(* C6 as stated.  After a channel error during a transfer, the session of  *)
(* the channel that reported it is no longer in the registry.              *)
(***************************************************************************)
C6_ChannelErrorRemovesSession ==
    \A e \in errors :
        e.origin = "channel.onerror" =>
            LET ch == chans[e.ref]
                s == IF e.kind = "sender" THEN ch.pc ELSE ch.rsess
            IN  (ch.sent # <<>> /\ ~EndSent(ch) /\ s # 0) =>
                    peers[pcs[s].inst][pcs[s].peer] # s

(***************************************************************************)
(* C7.  destroy(): the step that runs it leaves the endpoint's registry    *)
(* empty, every session that was registered closed, and the listener       *)
(* detached; the listener stays detached, and from then on a signal        *)
(* relayed to the endpoint changes no registry, session or channel, starts *)
(* no handler and invokes no callback.                                     *)
(***************************************************************************)
C7_Destroy ==
    /\ [](\A i \in Inst : destroyed[i] => ~listening[i])
    /\ [][\A i \in Inst :
             /\ (~destroyed[i] /\ destroyed'[i]) =>
                   /\ \A p \in Inst : peers'[i][p] = 0
                   /\ \A p \in Inst : peers[i][p] # 0 => pcs'[peers[i][p]].closed
                   /\ ~listening'[i]
             /\ (destroyed[i] /\ signals[i] # <<>> /\ signals'[i] = Tail(signals[i])) =>
                   /\ peers' = peers /\ pcs' = pcs /\ chans' = chans
                   /\ tasks' = tasks /\ calls' = calls
                   /\ errors' = errors /\ completions' = completions
                   /\ stateChanges' = stateChanges]_vars

\* destroy() ran in the middle of a transfer, and a signal arrived after it
C7_Witness ==
    \E i \in Inst :
        /\ destroyed[i] /\ ignored[i].detached > 0
        /\ \E c \in DOMAIN chans :
              /\ pcs[chans[c].pc].inst = i
              /\ pcs[chans[c].pc].closed
              /\ chans[c].sent # <<>> /\ ~EndSent(chans[c])

(***************************************************************************)
(* C8 as stated.  A 0-byte file: the sender's messages are the Metadata    *)
(* frame and then the End frame, with no binary message in between.        *)
(***************************************************************************)
C8_EmptyFileFrames ==
    \A c \in DOMAIN chans :
        (chans[c].file.size = 0 /\ EndSent(chans[c])) =>
            /\ Len(chans[c].sent) = 2
            /\ chans[c].sent[1].json.type = "metadata"
            /\ ChunksOf(chans[c].sent) = <<>>

(***************************************************************************)
(* C9.  A file of size S > 0: once the End frame is sent, the channel      *)
(* carries the Metadata frame, then ceil(S/chunkSize) binary chunks, each  *)
(* of chunkSize bytes but the last of S - chunkSize*(ceil(S/chunkSize)-1), *)
(* then the End frame; and onProgress was called once per chunk with       *)
(* (bytes sent so far, S), the last call with (S, S).  For S = 50000 the   *)
(* chunks are 16384, 16384, 16384, 848 bytes long.                         *)
(***************************************************************************)
C9_ChunkCount ==
    \A c \in DOMAIN chans :
        LET ch == chans[c]
            S == ch.file.size
            n == Ceil(S, chunkSize)
            chunks == ChunksOf(ch.sent)
        IN  (EndSent(ch) /\ S > 0) =>
              /\ Len(ch.sent) = n + 2
              /\ ch.sent[1].json.type = "metadata"
              /\ \A j \in 1..n : ch.sent[j + 1].kind = "binary"
              /\ Len(chunks) = n
              /\ \A j \in 1..n :
                    byteLength(chunks[j]) =
                       IF j < n THEN chunkSize ELSE S - chunkSize * (n - 1)
              /\ ch.progress = [j \in 1..n |-> <<Min(j * chunkSize, S), S>>]
              /\ ch.progress[n] = <<S, S>>
              /\ S = 50000 =>
                    /\ [j \in 1..Len(chunks) |-> byteLength(chunks[j])]
                          = <<16384, 16384, 16384, 848>>
                    /\ ch.progress = << <<16384, 50000>>, <<32768, 50000>>,
                                        <<49152, 50000>>, <<50000, 50000>> >>

\* the 50000-byte file has been sent whole
C9_Witness ==
    \E c \in DOMAIN chans : EndSent(chans[c]) /\ chans[c].file.size = 50000

(***************************************************************************)
(* C10 as stated.  An error caught inside sendFile is passed to onError,   *)
(* the promise of that call is rejected, and no offer was signalled.       *)
(***************************************************************************)
C10_SendFileRejects ==
    \A e \in errors :
        e.origin = "sendFile" =>
            /\ calls[e.ref].promise = "rejected"
            /\ ~calls[e.ref].offerSent

(***************************************************************************)
(* C11 as stated.  A failure of setRemoteDescription, createAnswer,        *)
(* setLocalDescription or addIceCandidate in _handleSignal is reported to  *)
(* the error callback and the session it failed on is torn down: once the  *)
(* handler has finished, that session is not in the registry.              *)
(***************************************************************************)
C11_NegotiationFailureTerminal ==
    \A e \in errors :
        (e.origin = "_handleSignal" /\ e.kind # "TypeError") =>
            peers[pcs[e.ref].inst][pcs[e.ref].peer] # e.ref

(***************************************************************************)
(* C12 as stated.  A malformed control frame (a text that is no JSON, or   *)
(* an End frame while no metadata is set) that reached a receiver's        *)
(* channel has been reported to the error callback.                        *)
(***************************************************************************)
C12_MalformedFrameReported ==
    \A c \in DOMAIN chans :
        \A kind \in chans[c].malformed :
            \E e \in errors :
                e.origin = "channel.onmessage" /\ e.ref = c /\ e.kind = kind

(***************************************************************************)
(* C13 as stated.  Once the sender has put the End frame on the channel,   *)
(* with no further event from the remote side, the sender's session is     *)
(* closed and its entry is removed from the sender's registry.             *)
(***************************************************************************)
C13_SenderTeardownAfterEnd ==
    \A c \in DOMAIN chans :
        EndSent(chans[c]) =>
            /\ pcs[chans[c].pc].closed
            /\ peers[pcs[chans[c].pc].inst][pcs[chans[c].pc].peer] # chans[c].pc

(***************************************************************************)
(* C14.  Monotonicity: in every state a session's receivedBytes is the sum *)
(* of the lengths of its receivedChunks, and no step makes receivedBytes   *)
(* smaller or changes receivedChunks other than by appending to it.        *)
(***************************************************************************)
C14_Monotonicity ==
    /\ [](\A x \in DOMAIN pcs :
             pcs[x].receivedBytes = BlobSize(pcs[x].receivedChunks))
    /\ [][\A x \in DOMAIN pcs :
             /\ pcs'[x].receivedBytes >= pcs[x].receivedBytes
             /\ Len(pcs'[x].receivedChunks) >= Len(pcs[x].receivedChunks)
             /\ SubSeq(pcs'[x].receivedChunks, 1, Len(pcs[x].receivedChunks))
                   = pcs[x].receivedChunks]_vars

\* a session has received several chunks, more than one chunk size in all
C14_Witness ==
    \E x \in DOMAIN pcs :
        /\ Len(pcs[x].receivedChunks) >= 2
        /\ pcs[x].receivedBytes > chunkSize
        /\ pcs[x].fileMetadata.isSet

(***************************************************************************)
(* C15 as stated.  Metadata immutability: once a session's metadata is     *)
(* set, no step changes the file name, size or content type it stores.     *)
(***************************************************************************)
C15_MetadataImmutable ==
    [][\A x \in DOMAIN pcs :
          pcs[x].fileMetadata.isSet =>
             /\ pcs'[x].fileMetadata.fileName = pcs[x].fileMetadata.fileName
             /\ pcs'[x].fileMetadata.fileSize = pcs[x].fileMetadata.fileSize
             /\ pcs'[x].fileMetadata.fileType = pcs[x].fileMetadata.fileType]_vars

(***************************************************************************)
(* C16.  Scenario 5: the step that takes an answer or a candidate from a   *)
(* peer with no session in the registry reports no error, creates no       *)
(* session, starts no handler, emits no signal and leaves every session,   *)
(* channel and callback log as it was.                                     *)
(***************************************************************************)
C16_UnknownPeerDropped ==
    [][\A i \in Inst :
          (/\ listening[i] /\ signals[i] # <<>>
           /\ Head(signals[i]).data.type \in {"answer", "ice-candidate"}
           /\ ~Has(i, Head(signals[i]).from)
           /\ signals'[i] = Tail(signals[i]))
          => /\ errors' = errors
             /\ pcs' = pcs /\ peers' = peers
             /\ tasks' = tasks /\ calls' = calls /\ chans' = chans
             /\ completions' = completions /\ stateChanges' = stateChanges
             /\ \A j \in Inst \ {i} : signals'[j] = signals[j]]_vars

\* a listening endpoint has taken a signal from a peer it has no session for,
\* while some session exists
C16_Witness ==
    \E i \in Inst :
        /\ ignored[i].unknownPeer > 0
        /\ listening[i]
        /\ \E x \in DOMAIN pcs : ~pcs[x].closed

(***************************************************************************)
(* C17.  Frame ordering on one sender channel: the messages are a prefix   *)
(* of one Metadata frame, the file's chunks in offset order, one End       *)
(* frame.  The first message is the file's Metadata frame, every later one *)
(* is a binary chunk that starts where the one before it ended, or the End *)
(* frame as the last message; the End frame is sent only when the offset   *)
(* has reached the file size; and a step that sends does so on a channel   *)
(* whose readyState is 'open', appending to what was sent.                 *)
(***************************************************************************)
C17_FrameOrdering ==
    /\ [](\A c \in DOMAIN chans :
             LET ch == chans[c]
                 sent == ch.sent
                 chunks == ChunksOf(sent)
             IN  /\ sent # <<>> => sent[1] = JSONstringify(MetadataJson(ch.file))
                 /\ \A j \in 2..Len(sent) :
                       \/ sent[j].kind = "binary"
                       \/ j = Len(sent) /\ sent[j] = JSONstringify(EndJson)
                 /\ \A j \in 1..Len(chunks) :
                       /\ chunks[j].lo = BlobSize(SubSeq(chunks, 1, j - 1))
                       /\ chunks[j].hi = Min(chunks[j].lo + chunkSize, ch.file.size)
                       /\ chunks[j] = Slice(ch.file, chunks[j].lo, chunks[j].hi)
                 /\ EndSent(ch) =>
                       /\ ch.offset >= ch.file.size
                       /\ BlobSize(chunks) = ch.file.size)
    /\ [][\A c \in DOMAIN chans :
             Len(chans'[c].sent) # Len(chans[c].sent) =>
                /\ chans'[c].state = "open"
                /\ ~pcs[chans[c].pc].closed
                /\ Len(chans'[c].sent) > Len(chans[c].sent)
                /\ SubSeq(chans'[c].sent, 1, Len(chans[c].sent)) = chans[c].sent]_vars

\* the channel closed while the sender waited for the buffer: the timer fired,
\* the slice was read, and nothing more was sent
C17_Witness ==
    \E c \in DOMAIN chans :
        /\ readyState(chans[c]) = "closed"
        /\ chans[c].reader = "idle"
        /\ chans[c].sent # <<>> /\ ~EndSent(chans[c])
        /\ chans[c].offset < chans[c].file.size
        /\ bufferedAmount(chans[c]) > chunkSize * BufferFactor

TransferDone(n) ==
    /\ n \in DOMAIN calls
    /\ \E c \in DOMAIN chans : chans[c].call = n /\ EndSent(chans[c])
    /\ \E k \in DOMAIN completions :
          /\ completions[k].inst = calls[n].target
          /\ completions[k].peer = calls[n].inst
          /\ completions[k].fileName = calls[n].file.name
          /\ completions[k].blob.type = calls[n].file.type
          /\ Bytes(completions[k].blob.parts) = FileBytes(calls[n].file)
          /\ pcs[completions[k].sess].closed
    /\ peers[calls[n].target][calls[n].inst] = 0

C19_TransferLiveness == (calls # <<>>) ~> TransferDone(1)

\* the transfer of a file longer than the send buffer's threshold is done
C19_Witness ==
    /\ calls # <<>>
    /\ calls[1].file.size > chunkSize * BufferFactor
    /\ TransferDone(1)

(***************************************************************************)
(* C20.  No cross-transfer mixing at the receiver: the blob of every       *)
(* completion consists of exactly the chunks of the data channel that      *)
(* carried the End frame which triggered it, in that channel's order, and  *)
(* its name and type are those of the file sent on that channel.           *)
(***************************************************************************)
C20_NoCrossTransferMixing ==
    \A k \in DOMAIN completions :
        LET cp == completions[k]
            ch == chans[cp.chan]
        IN  /\ cp.blob.parts = ChunksOf(SubSeq(ch.sent, 1, ch.delivered))
            /\ cp.fileName = ch.file.name
            /\ cp.blob.type = ch.file.type

====
